---- MODULE Spec2Model ----
(***************************************************************************)
(* Model of src/project.py: a Flask blog backend with signup/login and     *)
(* CRUD on Post rows, stored through SQLAlchemy in a relational database.  *)
(*                                                                         *)
(* Two specifications share the same handlers:                             *)
(*   Spec      every request handler runs to completion (one action per    *)
(*             handler), all endpoints;                                    *)
(*   SpecConc  the auth endpoints with signup split at its commit, so that *)
(*             several signup requests interleave between the existence    *)
(*             check (line 70) and the commit (line 78).                   *)
(***************************************************************************)
EXTENDS Integers, Sequences, FiniteSets, TLC

VARIABLES
    dialect,      \* database behind SQLALCHEMY_DATABASE_URI (lines 18-21)
    users,        \* table user: set of rows [id, username, password_hash]
    user_id_seq,  \* last value of the user id sequence (postgresql only)
    posts,        \* table post: function id -> row
    post_id_seq,  \* last value of the post id sequence (postgresql only)
    now,          \* server clock read by datetime.utcnow, in ticks
    pending,      \* per worker: the signup request between line 71 and 78
    resp,         \* the last HTTP response sent: [op, status, body]
    deleted,      \* history: post ids for which DELETE answered 200
    registered    \* history: username -> password of the signup answered 201

vars == <<dialect, users, user_id_seq, posts, post_id_seq, now, pending,
          resp, deleted, registered>>

----------------------------------------------------------------------------
(* Bounds *)

MaxPosts == 1
MaxClock == 1
MaxUserSeq == 3

PostIds == 1..MaxPosts

\* the request workers whose signup requests interleave in SpecConc
Workers == {"w1", "w2"}
\* the salts generate_password_hash draws from
Salts == {"s1", "s2"}

(* the clock ticks twice a minute; strftime('%Y-%m-%d %H:%M') keeps minutes *)
TicksPerMinute == 2

----------------------------------------------------------------------------
(* Python / JSON values *)

\* Python None where a string is expected, and where an integer is expected.
\* Request strings are drawn from the sets below and never equal None.
None == "None"
NoneId == 0

Usernames == {"alice", "bob"}
Passwords == {"pw1", "pw2"}
Texts == {"a"}
\* user ids a request may name: those that can be assigned, and one more
OwnerIds == 1..Cardinality(Usernames)
UserIds == 1..(Cardinality(Usernames) + 1)

\* JSON objects are functions from the keys present to their values.
EmptyDict == [k \in {} |-> None]

\* dict.get(key) for a string-valued and for an integer-valued key
get(data, key) == IF key \in DOMAIN data THEN data[key] ELSE None
get_id(data, key) == IF key \in DOMAIN data THEN data[key] ELSE NoneId
\* dict.get(key, default)
get_default(data, key, default) == IF key \in DOMAIN data THEN data[key] ELSE default

\* truth value of a str-or-None and of an int-or-None
truthy(v) == v # None /\ v # ""
truthy_id(v) == v # NoneId

\* `not data` for request.json
not_data(data) == DOMAIN data = {}

----------------------------------------------------------------------------
(* werkzeug.security *)

_hash_internal(salt, password) == <<"pbkdf2", salt, password>>

generate_password_hash(password, salt) ==
    [salt |-> salt, digest |-> _hash_internal(salt, password)]

\* defined for a str password; on None werkzeug raises
check_password_hash(pwhash, password) ==
    pwhash.digest = _hash_internal(pwhash.salt, password)

----------------------------------------------------------------------------
(* Responses *)

Response(op, status, body) == [op |-> op, status |-> status, body |-> body]

error(msg) == [error |-> msg]
message(msg) == [message |-> msg]

\* an exception no handler catches: Flask answers 500
Unhandled(op, exc) == Response(op, 500, [exception |-> exc])

NoResponse == Response("none", 0, EmptyDict)

Idle == [pc |-> "idle"]

----------------------------------------------------------------------------
(* Table user *)

Max(S) == CHOOSE m \in S : \A x \in S : x <= m

\* User.query.filter_by(username=...).first(): the matching rows
users_by_username(username) == {u \in users : u.username = username}
\* User.query.get(id)
users_by_id(id) == {u \in users : u.id = id}

\* unique=True on user.username: may a row with this username be inserted?
\* faulty variant: the column declared without unique=True
unique_username_C3_mutant(username) == TRUE
unique_username(username) == users_by_username(username) = {}

\* the id the database gives the next user row: sqlite takes max(rowid)+1,
\* postgresql the next value of the sequence
next_user_id ==
    IF dialect = "sqlite"
    THEN (IF users = {} THEN 1 ELSE Max({u.id : u \in users}) + 1)
    ELSE user_id_seq + 1

\* line 70: the existence check of signup
\* faulty variant: the check left out
user_exists_C4_mutant(username) == FALSE
user_exists(username) == users_by_username(username) # {}

\* lines 73-78: db.session.add(user); db.session.commit(), answered at line 80.
\* The insert takes an id first and fails on the unique constraint afterwards.
insert_user(username, password, salt) ==
    /\ dialect = "postgresql" => user_id_seq < MaxUserSeq
    /\ user_id_seq' = IF dialect = "postgresql" THEN user_id_seq + 1 ELSE user_id_seq
    /\ IF unique_username(username)
       THEN /\ users' = users \cup {[id |-> next_user_id,
                                     username |-> username,
                                     password_hash |-> generate_password_hash(password, salt)]}
            /\ registered' = [registered EXCEPT ![username] = password]
            /\ resp' = Response("signup", 201, message("User created successfully"))
       ELSE /\ UNCHANGED <<users, registered>>
            /\ resp' = Unhandled("signup", "IntegrityError")

\* lines 59-71: the answer signup gives before it inserts, or NoResponse
signup_checks(data) ==
    IF not_data(data)
    THEN Response("signup", 400, error("Invalid JSON"))
    ELSE IF ~truthy(get(data, "username")) \/ ~truthy(get(data, "password"))
    THEN Response("signup", 400, error("Username and password required"))
    ELSE IF user_exists(get(data, "username"))
    THEN Response("signup", 400, error("User already exists"))
    ELSE NoResponse

\* the JSON bodies of /signup and /login: each key absent, null, empty or set
AuthBodies ==
    LET uvals == Usernames \cup {None, ""}
        pvals == Passwords \cup {None, ""}
    IN  {[username |-> u, password |-> p] : u \in uvals, p \in pvals}
        \cup {[username |-> u] : u \in uvals}
        \cup {[password |-> p] : p \in pvals}
        \cup {EmptyDict}

\* Spec signs users up with one password and one salt; SpecConc varies both
SeqSignupBodies ==
    {d \in AuthBodies : "password" \in DOMAIN d => d["password"] # "pw2"}
SeqSalts == {"s1"}

----------------------------------------------------------------------------
(* POST /signup *)

\* the whole handler, lines 57-80
signup(data, salt) ==
    /\ IF signup_checks(data) # NoResponse
       THEN /\ resp' = signup_checks(data)
            /\ UNCHANGED <<users, user_id_seq, registered>>
       ELSE insert_user(data["username"], data["password"], salt)
    /\ UNCHANGED <<dialect, posts, post_id_seq, now, pending, deleted>>

\* worker w runs lines 59-71 of a signup request
signup_check(w, data) ==
    /\ pending[w] = Idle
    /\ IF signup_checks(data) # NoResponse
       THEN /\ resp' = signup_checks(data)
            /\ UNCHANGED pending
       ELSE /\ pending' = [pending EXCEPT ![w] =
                              [pc |-> "commit",
                               username |-> data["username"],
                               password |-> data["password"]]]
            /\ UNCHANGED resp
    /\ UNCHANGED <<dialect, users, user_id_seq, posts, post_id_seq, now,
                   deleted, registered>>

\* worker w runs lines 73-80 of its signup request
signup_commit(w, salt) ==
    /\ pending[w] # Idle
    /\ insert_user(pending[w].username, pending[w].password, salt)
    /\ pending' = [pending EXCEPT ![w] = Idle]
    /\ UNCHANGED <<dialect, posts, post_id_seq, now, deleted>>

----------------------------------------------------------------------------
(* POST /login, lines 83-98 *)

login_response(data) ==
    IF not_data(data)
    THEN Response("login", 400, error("Invalid JSON"))
    ELSE LET found == users_by_username(get(data, "username"))
         IN  IF found = {}
             THEN Response("login", 401, error("Invalid credentials"))
             ELSE LET user == CHOOSE u \in found : TRUE
                  IN  IF get(data, "password") = None
                      THEN Unhandled("login", "AttributeError")
                      ELSE IF ~check_password_hash(user.password_hash, get(data, "password"))
                      THEN Response("login", 401, error("Invalid credentials"))
                      ELSE Response("login", 200,
                                    [message |-> "Login successful", user_id |-> user.id])

login(data) ==
    /\ resp' = login_response(data)
    /\ UNCHANGED <<dialect, users, user_id_seq, posts, post_id_seq, now,
                   pending, deleted, registered>>

----------------------------------------------------------------------------

(* Table post *)

\* datetime.strftime('%Y-%m-%d %H:%M'): the timestamp cut to its minute
strftime(t) == t \div TicksPerMinute

\* Post.author, the backref of User.posts: the row user_id refers to
author(post) == CHOOSE u \in users : u.id = post.user_id

\* Post.to_dict, lines 45-53
to_dict(post) ==
    [id |-> post.id,
     title |-> post.title,
     body |-> post.body,
     author |-> author(post).username,
     user_id |-> post.user_id,
     created_at |-> strftime(post.created_at)]

Min(S) == CHOOSE m \in S : \A x \in S : m <= x

\* the rows with the given ids, in primary key order, each through to_dict
RECURSIVE to_dicts(_)
to_dicts(ids) ==
    IF ids = {} THEN <<>>
    ELSE <<to_dict(posts[Min(ids)])>> \o to_dicts(ids \ {Min(ids)})

\* the id the database gives the next post row: sqlite takes max(rowid)+1
\* (the column is INTEGER PRIMARY KEY without AUTOINCREMENT), postgresql
\* the next value of the sequence
next_post_id ==
    IF dialect = "sqlite"
    THEN (IF DOMAIN posts = {} THEN 1 ELSE Max(DOMAIN posts) + 1)
    ELSE post_id_seq + 1

\* nullable=False on post.title and post.body
not_null(row) == row.title # None /\ row.body # None

\* lines 144 and 163: the ownership check of update_post and delete_post
\* faulty variant: the request's user_id compared with the post's id
permission_denied_C1_mutant(data, post) == get_id(data, "user_id") # post.id
permission_denied(data, post) == get_id(data, "user_id") # post.user_id

\* lines 147-148: the fields update_post assigns
\* faulty variant: body read from the request's title key
assign_fields_C6_mutant(post, data) ==
    [post EXCEPT !.title = get_default(data, "title", post.title),
                 !.body = get_default(data, "title", post.body)]
assign_fields(post, data) ==
    [post EXCEPT !.title = get_default(data, "title", post.title),
                 !.body = get_default(data, "body", post.body)]

\* a JSON body of the post endpoints; Absent marks a key left out
AbsentStr == "absent"
AbsentId == -1
PostBody(t, b, i) ==
    [k \in (IF t # AbsentStr THEN {"title"} ELSE {})
           \cup (IF b # AbsentStr THEN {"body"} ELSE {})
           \cup (IF i # AbsentId THEN {"user_id"} ELSE {})
       |-> CASE k = "title" -> t [] k = "body" -> b [] k = "user_id" -> i]

CreateBodies ==
    {PostBody(t, b, i) : t \in {AbsentStr, ""} \cup Texts,
                         b \in {AbsentStr, ""} \cup Texts,
                         i \in {AbsentId} \cup UserIds}
UpdateBodies ==
    {PostBody(t, b, i) : t \in {AbsentStr, None, ""} \cup Texts,
                         b \in {AbsentStr, None, ""} \cup Texts,
                         i \in {AbsentId} \cup OwnerIds}
DeleteBodies ==
    {PostBody(t, AbsentStr, i) : t \in {AbsentStr} \cup Texts, i \in {AbsentId} \cup OwnerIds}

----------------------------------------------------------------------------
(* POST /posts, lines 103-125 *)

create_post(data) ==
    /\ IF not_data(data)
       THEN /\ resp' = Response("create_post", 400, error("Invalid JSON"))
            /\ UNCHANGED <<posts, post_id_seq>>
       ELSE IF \/ ~truthy(get(data, "title"))
               \/ ~truthy(get(data, "body"))
               \/ ~truthy_id(get_id(data, "user_id"))
       THEN /\ resp' = Response("create_post", 400, error("title, body, user_id required"))
            /\ UNCHANGED <<posts, post_id_seq>>
       ELSE IF users_by_id(data["user_id"]) = {}
       THEN /\ resp' = Response("create_post", 404, error("User not found"))
            /\ UNCHANGED <<posts, post_id_seq>>
       ELSE LET post == [id |-> next_post_id,
                         title |-> data["title"],
                         body |-> data["body"],
                         created_at |-> now,
                         user_id |-> data["user_id"]]
            IN  /\ next_post_id <= MaxPosts
                /\ posts' = [i \in DOMAIN posts \cup {post.id} |->
                                IF i = post.id THEN post ELSE posts[i]]
                /\ post_id_seq' = IF dialect = "postgresql"
                                  THEN post_id_seq + 1 ELSE post_id_seq
                /\ resp' = Response("create_post", 201, to_dict(post))
    /\ UNCHANGED <<dialect, users, user_id_seq, now, pending, deleted, registered>>

(* GET /posts, lines 129-132 *)

get_posts ==
    /\ resp' = Response("get_posts", 200, [posts |-> to_dicts(DOMAIN posts)])
    /\ UNCHANGED <<dialect, users, user_id_seq, posts, post_id_seq, now,
                   pending, deleted, registered>>

(* PUT /posts/<id>, lines 136-151 *)

update_post(id, data) ==
    /\ IF id \notin DOMAIN posts
       THEN /\ resp' = Response("update_post", 404, error("Not Found"))
            /\ UNCHANGED posts
       ELSE IF not_data(data)
       THEN /\ resp' = Response("update_post", 400, error("Invalid JSON"))
            /\ UNCHANGED posts
       ELSE IF permission_denied(data, posts[id])
       THEN /\ resp' = Response("update_post", 403, error("Permission denied"))
            /\ UNCHANGED posts
       ELSE LET post == assign_fields(posts[id], data)
            IN  IF not_null(post)
                THEN /\ posts' = [posts EXCEPT ![id] = post]
                     /\ resp' = Response("update_post", 200, to_dict(post))
                ELSE /\ resp' = Unhandled("update_post", "IntegrityError")
                     /\ UNCHANGED posts
    /\ UNCHANGED <<dialect, users, user_id_seq, post_id_seq, now, pending,
                   deleted, registered>>

(* DELETE /posts/<id>, lines 155-169 *)

delete_post(id, data) ==
    /\ IF id \notin DOMAIN posts
       THEN /\ resp' = Response("delete_post", 404, error("Not Found"))
            /\ UNCHANGED <<posts, deleted>>
       ELSE IF not_data(data)
       THEN /\ resp' = Response("delete_post", 400, error("Invalid JSON"))
            /\ UNCHANGED <<posts, deleted>>
       ELSE IF permission_denied(data, posts[id])
       THEN /\ resp' = Response("delete_post", 403, error("Permission denied"))
            /\ UNCHANGED <<posts, deleted>>
       ELSE /\ posts' = [i \in DOMAIN posts \ {id} |-> posts[i]]
            /\ deleted' = deleted \cup {id}
            /\ resp' = Response("delete_post", 200, message("Post deleted"))
    /\ UNCHANGED <<dialect, users, user_id_seq, post_id_seq, now, pending,
                   registered>>

(* GET /users/<username>/posts, lines 173-176 *)

get_user_posts(username) ==
    /\ IF users_by_username(username) = {}
       THEN resp' = Response("get_user_posts", 404, error("Not Found"))
       ELSE LET user == CHOOSE u \in users_by_username(username) : TRUE
            IN  resp' = Response("get_user_posts", 200,
                    [posts |-> to_dicts({i \in DOMAIN posts : posts[i].user_id = user.id})])
    /\ UNCHANGED <<dialect, users, user_id_seq, posts, post_id_seq, now,
                   pending, deleted, registered>>

(* the server clock advances *)

Tick ==
    /\ now < MaxClock
    /\ now' = now + 1
    /\ UNCHANGED <<dialect, users, user_id_seq, posts, post_id_seq, pending,
                   resp, deleted, registered>>

----------------------------------------------------------------------------

Init ==
    /\ dialect \in {"sqlite", "postgresql"}
    /\ users = {}
    /\ user_id_seq = 0
    /\ posts = [i \in {} |-> None]
    /\ post_id_seq = 0
    /\ now = 0
    /\ pending = [w \in Workers |-> Idle]
    /\ resp = NoResponse
    /\ deleted = {}
    /\ registered = [u \in Usernames |-> None]

NextConc ==
    \/ \E w \in Workers, data \in AuthBodies : signup_check(w, data)
    \/ \E w \in Workers, salt \in Salts : signup_commit(w, salt)
    \/ \E data \in AuthBodies : login(data)

SpecConc == Init /\ [][NextConc]_vars

Next ==
    \/ \E data \in SeqSignupBodies, salt \in SeqSalts : signup(data, salt)
    \/ \E data \in AuthBodies : login(data)
    \/ \E data \in CreateBodies : create_post(data)
    \/ get_posts
    \/ \E id \in PostIds, data \in UpdateBodies : update_post(id, data)
    \/ \E id \in PostIds, data \in DeleteBodies : delete_post(id, data)
    \/ \E username \in Usernames : get_user_posts(username)
    \/ Tick

Spec == Init /\ [][Next]_vars

----------------------------------------------------------------------------
(* Properties *)

store == <<users, posts>>

\* the ids listed by a 200 answer of get_posts or get_user_posts
listed_ids(response) ==
    {response.body.posts[k].id : k \in DOMAIN response.body.posts}

\* the only row of table user with this username
user_named(username) == CHOOSE u \in users : u.username = username

MutationBodies == UpdateBodies \cup DeleteBodies

\* C1: a PUT or DELETE on a live post whose body carries a user_id other than
\* the post's owner is answered 403 and leaves the post stored with the same
\* title, body, owner and creation timestamp, in every reachable state.
C1_OtherUserDenied ==
    [][\A id \in PostIds, data \in MutationBodies :
          ( /\ id \in DOMAIN posts
            /\ "user_id" \in DOMAIN data
            /\ data["user_id"] # posts[id].user_id
            /\ (update_post(id, data) \/ delete_post(id, data)) )
          => /\ resp'.status = 403
             /\ id \in DOMAIN posts'
             /\ posts'[id] = posts[id]]_vars

\* a post owned by a stored user, another stored user, and a 403 just answered
C1_Witness ==
    /\ resp.op \in {"update_post", "delete_post"}
    /\ resp.status = 403
    /\ \E id \in DOMAIN posts, u \in users :
          /\ u.id # posts[id].user_id
          /\ users_by_id(posts[id].user_id) # {}

\* C2: a PUT or DELETE on a live post whose body carries the owner's user_id
\* is answered 200 whatever title and body it supplies: update returns the
\* updated post, delete removes it.
C2_OwnerAlwaysSucceeds ==
    [][\A id \in PostIds, data \in MutationBodies :
          ( /\ id \in DOMAIN posts
            /\ "user_id" \in DOMAIN data
            /\ data["user_id"] = posts[id].user_id )
          => /\ update_post(id, data) =>
                   /\ resp'.status = 200
                   /\ id \in DOMAIN posts'
                   /\ resp'.body = to_dict(posts'[id])
             /\ delete_post(id, data) =>
                   /\ resp'.status = 200
                   /\ id \notin DOMAIN posts']_vars

\* C3: no two stored users have the same username, and no two the same id,
\* in every reachable state, whatever the interleaving of signup requests.
C3_UsersUnique ==
    \A u1 \in users, u2 \in users :
        (u1.username = u2.username \/ u1.id = u2.id) => u1 = u2

\* a signup about to commit a username another request stored after its check
C3_Witness ==
    \E w \in Workers :
        /\ pending[w] # Idle
        /\ users_by_username(pending[w].username) # {}

\* C4: a signup for a username that is stored is answered 400 whatever its
\* password (with "User already exists" when it carries one), adds no user and
\* starts no insert; and no stored user row is ever changed or removed.
C4_DuplicateSignupRejected ==
    [][/\ \A w \in Workers, data \in AuthBodies :
            ( /\ users_by_username(get(data, "username")) # {}
              /\ signup_check(w, data) )
            => /\ resp'.status = 400
               /\ truthy(get(data, "password")) =>
                      resp'.body = error("User already exists")
               /\ users' = users
               /\ pending' = pending
       /\ \A u \in users : u \in users']_vars

\* the conflict answer, with the first signup's row stored
C4_Witness ==
    /\ resp = Response("signup", 400, error("User already exists"))
    /\ users # {}

\* C5: once signup of (u, p) has succeeded, login answers 200 with u's id
\* exactly for the bodies with username u and password p, and 401 for a
\* stored username with any other password and for an unknown username.
C5_LoginExactlyRegistered ==
    [][\A data \in AuthBodies :
          (login(data) /\ "username" \in DOMAIN data) =>
             LET u == data["username"]
                 p == get(data, "password")
             IN  IF users_by_username(u) # {} /\ p = registered[u]
                 THEN /\ resp'.status = 200
                      /\ resp'.body.user_id = user_named(u).id
                 ELSE resp'.status = 401]_vars

\* C6: a successful PUT changes only the fields its body names and no other
\* post; and no step changes the id, owner or creation timestamp of a post
\* that is stored before and after it.
C6_UpdateFrame ==
    [][/\ \A id \in PostIds, data \in UpdateBodies :
            (id \in DOMAIN posts /\ resp'.status = 200 /\ update_post(id, data))
            => /\ DOMAIN posts' = DOMAIN posts
               /\ "title" \notin DOMAIN data => posts'[id].title = posts[id].title
               /\ "body" \notin DOMAIN data => posts'[id].body = posts[id].body
               /\ \A j \in DOMAIN posts \ {id} : posts'[j] = posts[j]
       /\ \A i \in DOMAIN posts \cap DOMAIN posts' :
            /\ posts[i].id = i
            /\ posts'[i].id = i
            /\ posts'[i].user_id = posts[i].user_id
            /\ posts'[i].created_at = posts[i].created_at]_vars

\* after an update that changed the title only, later than the creation
C6_Witness ==
    /\ resp.op = "update_post"
    /\ resp.status = 200
    /\ \E i \in DOMAIN posts :
          /\ posts[i].title = ""
          /\ posts[i].body \in Texts
          /\ posts[i].created_at < now

\* C7: once DELETE has answered 200 for a post id, every later listing omits
\* that id and every later PUT or DELETE on it is answered 404.
C7_DeletedIsTerminal ==
    [][\A id \in deleted :
          /\ get_posts => id \notin listed_ids(resp')
          /\ \A username \in Usernames :
                (get_user_posts(username) /\ resp'.status = 200)
                => id \notin listed_ids(resp')
          /\ \A data \in MutationBodies :
                (update_post(id, data) \/ delete_post(id, data))
                => resp'.status = 404]_vars

\* C8: a request that lacks a required field is answered 400 and changes no
\* stored state: signup and login without username or password, create post
\* without title, body or user_id, update and delete of a stored post without
\* user_id.
C8_MissingFieldRejected ==
    [][/\ \A data \in AuthBodies, salt \in Salts :
            ( /\ {"username", "password"} \ DOMAIN data # {}
              /\ (signup(data, salt) \/ login(data)) )
            => (resp'.status = 400 /\ store' = store)
       /\ \A data \in CreateBodies :
            ( /\ {"title", "body", "user_id"} \ DOMAIN data # {}
              /\ create_post(data) )
            => (resp'.status = 400 /\ store' = store)
       /\ \A id \in PostIds, data \in MutationBodies :
            ( /\ id \in DOMAIN posts
              /\ "user_id" \notin DOMAIN data
              /\ (update_post(id, data) \/ delete_post(id, data)) )
            => (resp'.status = 400 /\ store' = store)]_vars

\* C9: of two signup requests that both passed the existence check for the
\* same username, the one that commits first creates the user and is answered
\* 201, the other creates nothing and is answered 400.
C9_RaceLoserGetsConflict ==
    [][\A w \in Workers, salt \in Salts :
          signup_commit(w, salt) =>
             IF users_by_username(pending[w].username) = {}
             THEN /\ resp'.status = 201
                  /\ Cardinality(users') = Cardinality(users) + 1
             ELSE /\ resp'.status = 400
                  /\ users' = users]_vars

\* C10: every stored post has a non-empty title, a non-empty body and an
\* owner reference that names a stored user.
C10_PostsValid ==
    \A i \in DOMAIN posts :
        /\ truthy(posts[i].title)
        /\ truthy(posts[i].body)
        /\ users_by_id(posts[i].user_id) # {}

====
